---- MODULE Spec2Model ----
(***************************************************************************)
(* Model of the name-bucket loader (populate_ddb_with_names.py) and of the *)
(* bucket lookup handlers (lambda_function.py, get_state_names_lambda.py). *)
(*                                                                         *)
(* Python strings are TLA+ strings (Len, \o and SubSeq act on them),       *)
(* Python lists are sequences, a DynamoDB item is a function from          *)
(* attribute names to values, and the table is a function from the        *)
(* partition keys that hold an item to that item.                          *)
(***************************************************************************)
EXTENDS Integers, Sequences, FiniteSets, TLC

VARIABLES
    pack,       \* the last call of a packing function: arguments and result
    store,      \* the StateNames table: State key -> item
    run,        \* the last call of process_state_file: arguments and outcome
    batch,      \* main(): position in the list of state files
    lookup,     \* the last call of a lookup handler: event, response, reads
    analyzed    \* the last call of analyze_names: the lines and what it returned

vars == <<pack, store, run, batch, lookup, analyzed>>

(***************************************************************************)
(* Bounds of the model.                                                    *)
(***************************************************************************)
MaxNames == 3        \* length of a list handed to a packing function
MaxBudget == 16      \* largest max_bucket_size handed to a packing function
MaxBuckets == 3      \* largest num_buckets handed to a packing function

(***************************************************************************)
(* Generic helpers.                                                        *)
(***************************************************************************)
SeqsUpTo(S, n) == UNION {[1..k -> S] : k \in 0..n}

Range(s) == {s[i] : i \in 1..Len(s)}

RECURSIVE Flatten(_)
Flatten(ss) == IF ss = <<>> THEN <<>> ELSE Head(ss) \o Flatten(Tail(ss))

IsPrefix(p, s) == Len(p) <= Len(s) /\ SubSeq(s, 1, Len(p)) = p

(***************************************************************************)
(* create_name_buckets(results, max_bucket_size, num_buckets).             *)
(* The loop state is (buckets, current_bucket_idx, current_size); i is the *)
(* position in results.  current_bucket_idx is 0-based as in the code.     *)
(***************************************************************************)
EmptyBuckets(num_buckets) == [b \in 1..num_buckets |-> <<>>]

\* Long names are written short: LongA and LongB stand for names of 3944
\* letters, which fill a bucket of 3950 alone (2 + 3944 + 4), and Over for a
\* name of 3945 letters, which fits no bucket of 3950.  A name matters to the
\* program through its identity and its length only.
LongA == "A(x3944)"

LongB == "B(x3944)"

Over == "Z(x3945)"

\* len(name)
PyLen(name) == CASE name \in {LongA, LongB} -> 3944 [] name = Over -> 3945 [] OTHER -> Len(name)

\* the mutant of NameSize: the cost without the quotes, comma and space
NameSizeBare(name) == PyLen(name)

NameSize(name) == PyLen(name) + 4

RECURSIVE NameBucketsLoop(_, _, _, _, _, _, _)
NameBucketsLoop(results, i, buckets, current_bucket_idx, current_size, max_bucket_size, num_buckets) ==
    IF i > Len(results) THEN buckets
    ELSE
        LET name == results[i][1]
            name_size == NameSize(name)
            exceeds == current_size + name_size > max_bucket_size
            idx == IF exceeds THEN current_bucket_idx + 1 ELSE current_bucket_idx
            size == IF exceeds THEN 2 ELSE current_size
        IN  IF exceeds /\ idx >= num_buckets THEN buckets
            ELSE NameBucketsLoop(results, i + 1,
                     [buckets EXCEPT ![idx + 1] = Append(@, name)],
                     idx, size + name_size, max_bucket_size, num_buckets)

\* the mutant of create_name_buckets: a name that does not fit the last
\* bucket is skipped (continue) and the loop goes on to the names after it
RECURSIVE NameBucketsLoopSkip(_, _, _, _, _, _, _)
NameBucketsLoopSkip(results, i, buckets, current_bucket_idx, current_size, max_bucket_size, num_buckets) ==
    IF i > Len(results) THEN buckets
    ELSE
        LET name == results[i][1]
            name_size == PyLen(name) + 4
            exceeds == current_size + name_size > max_bucket_size
            last == current_bucket_idx + 1 >= num_buckets
            idx == IF exceeds /\ ~last THEN current_bucket_idx + 1
                   ELSE current_bucket_idx
            size == IF exceeds /\ ~last THEN 2 ELSE current_size
        IN  IF exceeds /\ last
            THEN NameBucketsLoopSkip(results, i + 1, buckets, idx, size,
                     max_bucket_size, num_buckets)
            ELSE NameBucketsLoopSkip(results, i + 1,
                     [buckets EXCEPT ![idx + 1] = Append(@, name)],
                     idx, size + name_size, max_bucket_size, num_buckets)

create_name_buckets_skip(results, max_bucket_size, num_buckets) ==
    NameBucketsLoopSkip(results, 1, EmptyBuckets(num_buckets), 0, 2,
                        max_bucket_size, num_buckets)

create_name_buckets(results, max_bucket_size, num_buckets) ==
    NameBucketsLoop(results, 1, EmptyBuckets(num_buckets), 0, 2,
                    max_bucket_size, num_buckets)

(***************************************************************************)
(* create_international_name_buckets(names, existing_names,                *)
(*                                   max_bucket_size, num_buckets).        *)
(***************************************************************************)
RECURSIVE InternationalBucketsLoop(_, _, _, _, _, _, _, _)
InternationalBucketsLoop(names, existing_names, i, buckets, current_bucket_idx, current_size, max_bucket_size, num_buckets) ==
    IF i > Len(names) THEN buckets
    ELSE
        LET name == names[i]
        IN  IF name \in existing_names
            THEN InternationalBucketsLoop(names, existing_names, i + 1, buckets,
                     current_bucket_idx, current_size, max_bucket_size,
                     num_buckets)
            ELSE
                LET name_size == NameSize(name)
                    exceeds == current_size + name_size > max_bucket_size
                    idx == IF exceeds THEN current_bucket_idx + 1
                           ELSE current_bucket_idx
                    size == IF exceeds THEN 2 ELSE current_size
                IN  IF exceeds /\ idx >= num_buckets THEN buckets
                    ELSE InternationalBucketsLoop(names, existing_names, i + 1,
                             [buckets EXCEPT ![idx + 1] = Append(@, name)],
                             idx, size + name_size, max_bucket_size,
                             num_buckets)

\* the mutant of create_international_name_buckets: the membership test on
\* existing_names is left out
create_international_name_buckets_nofilter(names, existing_names, max_bucket_size, num_buckets) ==
    InternationalBucketsLoop(names, {}, 1, EmptyBuckets(num_buckets), 0, 2,
                             max_bucket_size, num_buckets)

create_international_name_buckets(names, existing_names, max_bucket_size, num_buckets) ==
    InternationalBucketsLoop(names, existing_names, 1,
                             EmptyBuckets(num_buckets), 0, 2,
                             max_bucket_size, num_buckets)

(***************************************************************************)
(* Python's int(s) on a string: surrounding whitespace is stripped, one    *)
(* sign is allowed, then decimal digits, with single underscores allowed   *)
(* between digits.  PyInt gives [ok |-> FALSE] where int() raises          *)
(* ValueError.                                                             *)
(***************************************************************************)
Char(s, i) == SubSeq(s, i, i)

Digits == {"0", "1", "2", "3", "4", "5", "6", "7", "8", "9"}

Whitespace == {" ", "\t", "\n", "\r"}

DigitValue(c) ==
    CASE c = "0" -> 0 [] c = "1" -> 1 [] c = "2" -> 2 [] c = "3" -> 3 [] c = "4" -> 4
      [] c = "5" -> 5 [] c = "6" -> 6 [] c = "7" -> 7 [] c = "8" -> 8 [] c = "9" -> 9

\* str.strip(): the string without its leading and trailing whitespace
Strip(s) ==
    LET inside == {i \in 1..Len(s) : Char(s, i) \notin Whitespace}
    IN  IF inside = {} THEN ""
        ELSE SubSeq(s, CHOOSE i \in inside : \A j \in inside : i <= j, CHOOSE i \in inside : \A j \in inside : i >= j)

\* the digits part: non-empty, digits with single underscores between digits
DigitsWellFormed(d) ==
    /\ Len(d) >= 1
    /\ \A i \in 1..Len(d) : Char(d, i) \in Digits \cup {"_"}
    /\ Char(d, 1) # "_"
    /\ Char(d, Len(d)) # "_"
    /\ \A i \in 1..(Len(d) - 1) : ~(Char(d, i) = "_" /\ Char(d, i + 1) = "_")

RECURSIVE DigitsValue(_, _, _)
DigitsValue(d, i, acc) ==
    IF i > Len(d) THEN acc
    ELSE IF Char(d, i) = "_" THEN DigitsValue(d, i + 1, acc)
    ELSE DigitsValue(d, i + 1, 10 * acc + DigitValue(Char(d, i)))

PyInt(s) ==
    LET t == Strip(s)
        signed == Len(t) >= 1 /\ Char(t, 1) \in {"+", "-"}
        d == IF signed THEN SubSeq(t, 2, Len(t)) ELSE t
    IN  IF DigitsWellFormed(d)
        THEN [ok |-> TRUE, value |-> IF signed /\ Char(t, 1) = "-" THEN 0 - DigitsValue(d, 1, 0) ELSE DigitsValue(d, 1, 0)]
        ELSE [ok |-> FALSE, value |-> 0]

(***************************************************************************)
(* analyze_names(file_path).  The file is the sequence of its lines, and a *)
(* line is the sequence of fields that line.strip().split(',') gives.      *)
(* name_counts is the dict as the sequence of its (name, count) items in   *)
(* insertion order, which is the order Python's dict keeps.                *)
(***************************************************************************)
YearLo == 1955

YearHi == 2010

DictHas(items, name) == \E k \in 1..Len(items) : items[k][1] = name

\* name_counts[name] += count on a defaultdict(int)
DictAdd(items, name, count) ==
    IF DictHas(items, name)
    THEN [k \in 1..Len(items) |-> IF items[k][1] = name THEN <<name, items[k][2] + count>> ELSE items[k]]
    ELSE Append(items, <<name, count>>)

\* the mutant of AnalyzeLoop for the grand total: every record with integer
\* year and count is added to total_name_count, in the year window or not
RECURSIVE AnalyzeLoopTotalUnfiltered(_, _, _, _)
AnalyzeLoopTotalUnfiltered(lines, i, name_counts, total_name_count) ==
    IF i > Len(lines) THEN [name_counts |-> name_counts, total_name_count |-> total_name_count]
    ELSE
        LET parts == lines[i]
        IN  IF Len(parts) # 5 THEN AnalyzeLoopTotalUnfiltered(lines, i + 1, name_counts, total_name_count)
            ELSE
                LET year == PyInt(parts[3])
                    name == parts[4]
                    count == PyInt(parts[5])
                IN  IF ~year.ok \/ ~count.ok THEN AnalyzeLoopTotalUnfiltered(lines, i + 1, name_counts, total_name_count)
                    ELSE IF YearLo <= year.value /\ year.value <= YearHi
                    THEN AnalyzeLoopTotalUnfiltered(lines, i + 1, DictAdd(name_counts, name, count.value), total_name_count + count.value)
                    ELSE AnalyzeLoopTotalUnfiltered(lines, i + 1, name_counts, total_name_count + count.value)

\* the mutant of AnalyzeLoop for the year window: the last year is left out
RECURSIVE AnalyzeLoopOpenWindow(_, _, _, _)
AnalyzeLoopOpenWindow(lines, i, name_counts, total_name_count) ==
    IF i > Len(lines) THEN [name_counts |-> name_counts, total_name_count |-> total_name_count]
    ELSE
        LET parts == lines[i]
        IN  IF Len(parts) # 5 THEN AnalyzeLoopOpenWindow(lines, i + 1, name_counts, total_name_count)
            ELSE
                LET year == PyInt(parts[3])
                    name == parts[4]
                    count == PyInt(parts[5])
                IN  IF ~year.ok \/ ~count.ok THEN AnalyzeLoopOpenWindow(lines, i + 1, name_counts, total_name_count)
                    ELSE IF YearLo <= year.value /\ year.value < YearHi
                    THEN AnalyzeLoopOpenWindow(lines, i + 1, DictAdd(name_counts, name, count.value), total_name_count + count.value)
                    ELSE AnalyzeLoopOpenWindow(lines, i + 1, name_counts, total_name_count)

\* lines 29-47: the loop over the lines of the file
RECURSIVE AnalyzeLoop(_, _, _, _)
AnalyzeLoop(lines, i, name_counts, total_name_count) ==
    IF i > Len(lines) THEN [name_counts |-> name_counts, total_name_count |-> total_name_count]
    ELSE
        LET parts == lines[i]
        IN  IF Len(parts) # 5 THEN AnalyzeLoop(lines, i + 1, name_counts, total_name_count)
            ELSE
                LET year == PyInt(parts[3])
                    name == parts[4]
                    count == PyInt(parts[5])
                IN  IF ~year.ok \/ ~count.ok THEN AnalyzeLoop(lines, i + 1, name_counts, total_name_count)
                    ELSE IF YearLo <= year.value /\ year.value <= YearHi
                    THEN AnalyzeLoop(lines, i + 1, DictAdd(name_counts, name, count.value), total_name_count + count.value)
                    ELSE AnalyzeLoop(lines, i + 1, name_counts, total_name_count)

\* the mutant of InsertByCount: an item goes before the items of equal count,
\* which is what a sort that is not stable may do
RECURSIVE InsertByCountUnstable(_, _)
InsertByCountUnstable(sorted, item) ==
    IF sorted = <<>> THEN <<item>>
    ELSE IF Head(sorted)[2] > item[2] THEN <<Head(sorted)>> \o InsertByCountUnstable(Tail(sorted), item)
    ELSE <<item>> \o sorted

\* sorted(items, key=lambda x: x[1], reverse=True): a stable sort, so items
\* with equal counts keep their order
RECURSIVE InsertByCount(_, _)
InsertByCount(sorted, item) ==
    IF sorted = <<>> THEN <<item>>
    ELSE IF Head(sorted)[2] >= item[2] THEN <<Head(sorted)>> \o InsertByCount(Tail(sorted), item)
    ELSE <<item>> \o sorted

RECURSIVE SortedByCountDesc(_, _, _)
SortedByCountDesc(items, i, sorted) ==
    IF i > Len(items) THEN sorted ELSE SortedByCountDesc(items, i + 1, InsertByCount(sorted, items[i]))

analyze_names(lines) ==
    LET acc == AnalyzeLoop(lines, 1, <<>>, 0)
    IN  [result |-> SortedByCountDesc(acc.name_counts, 1, <<>>), total_name_count |-> acc.total_name_count]

(***************************************************************************)
(* The StateNames table and write_to_dynamodb.                             *)
(***************************************************************************)
MaxBucketSize == 3950

NumStateBuckets == 4

NumOtherBuckets == 2

\* the mutant of PutItem: the attributes of the item already stored that the
\* new item does not set are kept (an update instead of a replacement)
PutItemMerge(table, item) ==
    LET key == item["State"]
        merged == IF key \in DOMAIN table THEN item @@ table[key] ELSE item
    IN  [k \in DOMAIN table \cup {key} |-> IF k = key THEN merged ELSE table[k]]

\* table.put_item(Item=item): the item replaces the one stored under its key
PutItem(table, item) ==
    LET key == item["State"]
    IN  [k \in DOMAIN table \cup {key} |-> IF k = key THEN item ELSE table[k]]

\* the item of lines 248-267; other_name_buckets is <<>> when it is None
BuildItem(state, name_buckets, unique_names_count, total_name_count, other_name_buckets) ==
    LET base ==
            ("State" :> state)
            @@ ("stateBucket1" :> name_buckets[1]) @@ ("stateBucket2" :> name_buckets[2])
            @@ ("stateBucket3" :> name_buckets[3]) @@ ("stateBucket4" :> name_buckets[4])
            @@ ("stateBucket1Count" :> Len(name_buckets[1])) @@ ("stateBucket2Count" :> Len(name_buckets[2]))
            @@ ("stateBucket3Count" :> Len(name_buckets[3])) @@ ("stateBucket4Count" :> Len(name_buckets[4]))
            @@ ("uniqueNamesCount" :> unique_names_count) @@ ("totalNameCount" :> total_name_count)
    IN  IF other_name_buckets # <<>>
        THEN base
             @@ ("otherNamesBucket1" :> other_name_buckets[1]) @@ ("otherNamesBucket2" :> other_name_buckets[2])
             @@ ("otherNamesBucket1Count" :> Len(other_name_buckets[1])) @@ ("otherNamesBucket2Count" :> Len(other_name_buckets[2]))
        ELSE base

\* write_to_dynamodb: put_ok says whether the table calls (table_status,
\* create_table, put_item) succeed; when one raises, nothing is written and
\* the exception leaves write_to_dynamodb
write_to_dynamodb(table, state, name_buckets, unique_names_count, total_name_count, other_name_buckets, put_ok) ==
    IF put_ok
    THEN [table |-> PutItem(table, BuildItem(state, name_buckets, unique_names_count, total_name_count, other_name_buckets)), raised |-> FALSE]
    ELSE [table |-> table, raised |-> TRUE]

\* get_all_existing_names: the names of stateBucket1..4 of every item; the
\* empty set when the scan raises (the exception is caught)
get_all_existing_names(table, scan_ok) ==
    IF scan_ok
    THEN UNION {UNION {Range(table[k][b]) : b \in {"stateBucket1", "stateBucket2", "stateBucket3", "stateBucket4"} \cap DOMAIN table[k]} : k \in DOMAIN table}
    ELSE {}

(***************************************************************************)
(* process_state_file(file_path, international_names).                     *)
(***************************************************************************)
\* os.path.basename(file_path).split('.')[0]
StateOfPath(file_path) ==
    LET slashes == {i \in 1..Len(file_path) : Char(file_path, i) = "/"}
        from == IF slashes = {} THEN 1 ELSE 1 + CHOOSE i \in slashes : \A j \in slashes : i >= j
        base == SubSeq(file_path, from, Len(file_path))
        dots == {i \in 1..Len(base) : Char(base, i) = "."}
    IN  IF dots = {} THEN base ELSE SubSeq(base, 1, (CHOOSE i \in dots : \A j \in dots : i <= j) - 1)

\* the mutant of StateNamesOf: the names of every state in the table are
\* excluded as well (existing_names handed on instead of state_names)
StateNamesWithExisting(name_buckets, existing_names) == UNION {Range(name_buckets[b]) : b \in 1..Len(name_buckets)} \cup existing_names

\* the mutant of StateNamesOf: only the names of the first bucket are excluded
StateNamesFirstBucket(name_buckets, existing_names) == Range(name_buckets[1])

\* state_names of lines 316-318; existing_names is computed and not used
StateNamesOf(name_buckets, existing_names) == UNION {Range(name_buckets[b]) : b \in 1..Len(name_buckets)}

\* the table after the call, and whether the call raised
process_state_file(table, file_path, lines, international_names, scan_ok, put_ok) ==
    LET state == StateOfPath(file_path)
        analysis == analyze_names(lines)
        results == analysis.result
        name_buckets == create_name_buckets(results, MaxBucketSize, NumStateBuckets)
        existing_names == get_all_existing_names(table, scan_ok)
        state_names == StateNamesOf(name_buckets, existing_names)
        other_name_buckets ==
            IF international_names # <<>>
            THEN create_international_name_buckets(international_names, state_names, MaxBucketSize, NumOtherBuckets)
            ELSE <<>>
    IN  write_to_dynamodb(table, state, name_buckets, Len(results), analysis.total_name_count, other_name_buckets, put_ok)

(***************************************************************************)
(* lambda_function.lambda_handler(event, context).                         *)
(*                                                                         *)
(* An event is [surface, format, state, bucket]: surface "gateway" is a    *)
(* dict with a 'body' key and "direct" is any other event; format says     *)
(* what the body (or the event) holds; state and bucket are what .get()    *)
(* gives, <<>> for None and <<s>> for the string s.                        *)
(* A response is [shape, statusCode, headers, data, body]: shape "raw" is  *)
(* the data returned as it is, shape "envelope" carries the JSON text of   *)
(* the data in body.                                                       *)
(***************************************************************************)
None == <<>>

Some(s) == <<s>>

\* Python truth of an optional string: None and "" are false
Truthy(opt) == opt # None /\ opt[1] # ""

NamesData(names) == [tag |-> "names", names |-> names, error |-> ""]

ErrorData(message) == [tag |-> "error", names |-> <<>>, error |-> message]

NoData == [tag |-> "none", names |-> <<>>, error |-> ""]

NoResponse == [shape |-> "none", statusCode |-> 0, headers |-> FALSE, data |-> NoData, body |-> ""]

\* ", ".join of the JSON strings of a list of names
RECURSIVE JsonJoin(_)
JsonJoin(names) ==
    IF names = <<>> THEN ""
    ELSE IF Len(names) = 1 THEN "\"" \o names[1] \o "\""
    ELSE "\"" \o names[1] \o "\", " \o JsonJoin(Tail(names))

\* json.dumps(data) for a list of plain ASCII names or an {"error": ...} dict
JsonDumps(data) ==
    IF data.tag = "error" THEN "{\"error\": \"" \o data.error \o "\"}"
    ELSE "[" \o JsonJoin(data.names) \o "]"

format_response(data, is_api_gateway) ==
    IF is_api_gateway
    THEN [shape |-> "envelope", statusCode |-> 200, headers |-> TRUE, data |-> NoData, body |-> JsonDumps(data)]
    ELSE [shape |-> "raw", statusCode |-> 0, headers |-> FALSE, data |-> data, body |-> ""]

StateBucketPrefix == "stateBucket"

OtherNamesBucketPrefix == "otherNamesBucket"

StartsWith(s, prefix) == Len(prefix) <= Len(s) /\ SubSeq(s, 1, Len(prefix)) = prefix

\* bucket[len(prefix):]
AfterPrefix(s, prefix) == SubSeq(s, Len(prefix) + 1, Len(s))

\* lines 27-57: [outcome, state, bucket]; outcome "parsed", "invalid_format"
\* (the return of lines 50-53) or "exception" (caught at line 98)
ParseEvent(event) ==
    IF event.surface = "gateway"
    THEN CASE event.format = "args" -> [outcome |-> "parsed", state |-> event.state, bucket |-> event.bucket]
           [] event.format = "tool_calls" -> [outcome |-> "parsed", state |-> event.state, bucket |-> event.bucket]
           [] event.format = "tool_calls_without_arguments" -> [outcome |-> "exception", state |-> None, bucket |-> None]
           [] event.format = "malformed_json" -> [outcome |-> "exception", state |-> None, bucket |-> None]
           [] OTHER -> [outcome |-> "invalid_format", state |-> None, bucket |-> None]
    ELSE IF event.format = "flat" THEN [outcome |-> "parsed", state |-> event.state, bucket |-> event.bucket]
    ELSE [outcome |-> "exception", state |-> None, bucket |-> None]

\* the mutant of BucketNumberError: the suffix is not converted to a number,
\* so any suffix passes
BucketNumberUnchecked(bucket, prefix, hi, range_error, format_error) == ""

\* lines 74-83 and 87-96: "" when the number after the prefix is accepted,
\* else the error message
BucketNumberError(bucket, prefix, hi, range_error, format_error) ==
    LET bucket_number == PyInt(AfterPrefix(bucket, prefix))
    IN  IF ~bucket_number.ok THEN format_error
        ELSE IF bucket_number.value < 1 \/ bucket_number.value > hi THEN range_error
        ELSE ""

\* the mutant of ValidationError: the prefix and the number of a bucket are
\* checked before the state is looked at
ValidationErrorBucketFirst(state, bucket) ==
    IF ~Truthy(bucket) THEN "Missing required parameters: state and bucket"
    ELSE IF ~StartsWith(bucket[1], StateBucketPrefix) /\ ~StartsWith(bucket[1], OtherNamesBucketPrefix)
    THEN "bucket must start with 'stateBucket' or 'otherNamesBucket'"
    ELSE IF StartsWith(bucket[1], StateBucketPrefix) /\ BucketNumberError(bucket[1], StateBucketPrefix, 4, "For state buckets, number must be between 1 and 4", "Invalid bucket format. Expected 'stateBucket1' through 'stateBucket4'") # ""
    THEN BucketNumberError(bucket[1], StateBucketPrefix, 4, "For state buckets, number must be between 1 and 4", "Invalid bucket format. Expected 'stateBucket1' through 'stateBucket4'")
    ELSE IF StartsWith(bucket[1], OtherNamesBucketPrefix) /\ BucketNumberError(bucket[1], OtherNamesBucketPrefix, 2, "For other names buckets, number must be between 1 and 2", "Invalid bucket format. Expected 'otherNamesBucket1' or 'otherNamesBucket2'") # ""
    THEN BucketNumberError(bucket[1], OtherNamesBucketPrefix, 2, "For other names buckets, number must be between 1 and 2", "Invalid bucket format. Expected 'otherNamesBucket1' or 'otherNamesBucket2'")
    ELSE IF ~Truthy(state) THEN "Missing required parameters: state and bucket"
    ELSE ""

\* lines 59-96: "" when state and bucket pass every check, else the error
ValidationError(state, bucket) ==
    IF ~Truthy(state) \/ ~Truthy(bucket) THEN "Missing required parameters: state and bucket"
    ELSE IF ~StartsWith(bucket[1], StateBucketPrefix) /\ ~StartsWith(bucket[1], OtherNamesBucketPrefix)
    THEN "bucket must start with 'stateBucket' or 'otherNamesBucket'"
    ELSE IF StartsWith(bucket[1], StateBucketPrefix)
    THEN BucketNumberError(bucket[1], StateBucketPrefix, 4, "For state buckets, number must be between 1 and 4", "Invalid bucket format. Expected 'stateBucket1' through 'stateBucket4'")
    ELSE BucketNumberError(bucket[1], OtherNamesBucketPrefix, 2, "For other names buckets, number must be between 1 and 2", "Invalid bucket format. Expected 'otherNamesBucket1' or 'otherNamesBucket2'")

\* the mutant of GetItemData: the bucket of the ordinal before the one asked
\* for is read (a 0-based index into 1-based keys)
GetItemDataOffByOne(table, state, bucket) ==
    LET shifted == CASE bucket = "stateBucket2" -> "stateBucket1" [] bucket = "stateBucket3" -> "stateBucket2"
                     [] bucket = "stateBucket4" -> "stateBucket3" [] bucket = "otherNamesBucket2" -> "otherNamesBucket1"
                     [] OTHER -> bucket
    IN  IF state \notin DOMAIN table THEN NamesData(<<>>)
        ELSE IF shifted \in DOMAIN table[state] THEN NamesData(table[state][shifted])
        ELSE NamesData(<<>>)

\* the mutant of GetItemData: a missing item or attribute is reported as an
\* error
GetItemDataErrorOnMissing(table, state, bucket) ==
    IF state \notin DOMAIN table THEN ErrorData("State not found")
    ELSE IF bucket \in DOMAIN table[state] THEN NamesData(table[state][bucket])
    ELSE ErrorData("Bucket not found")

\* lines 115-123, after a get_item that succeeded
GetItemData(table, state, bucket) ==
    IF state \notin DOMAIN table THEN NamesData(<<>>)
    ELSE IF bucket \in DOMAIN table[state] THEN NamesData(table[state][bucket])
    ELSE NamesData(<<>>)

\* get_outcome is what table.get_item does: "ok", "ClientError" (caught at
\* line 125) or "OtherError" (any other exception, which no except clause of
\* the handler catches).  reads counts the get_item calls.
lambda_handler(table, event, get_outcome) ==
    LET parsed == ParseEvent(event)
        is_api_gateway == event.surface = "gateway"
        error == ValidationError(parsed.state, parsed.bucket)
    IN  IF parsed.outcome = "invalid_format"
        THEN [response |-> [shape |-> "envelope", statusCode |-> 400, headers |-> FALSE, data |-> NoData, body |-> JsonDumps(ErrorData("Invalid request format"))], reads |-> 0, raised |-> FALSE]
        ELSE IF parsed.outcome = "exception"
        THEN [response |-> format_response(ErrorData("Error parsing request"), is_api_gateway), reads |-> 0, raised |-> FALSE]
        ELSE IF error # ""
        THEN [response |-> format_response(ErrorData(error), is_api_gateway), reads |-> 0, raised |-> FALSE]
        ELSE IF get_outcome = "ok"
        THEN [response |-> format_response(GetItemData(table, parsed.state[1], parsed.bucket[1]), is_api_gateway), reads |-> 1, raised |-> FALSE]
        ELSE IF get_outcome = "ClientError"
        THEN [response |-> format_response(ErrorData("An error occurred (ClientError) when calling the GetItem operation"), is_api_gateway), reads |-> 1, raised |-> FALSE]
        ELSE [response |-> NoResponse, reads |-> 1, raised |-> TRUE]

(***************************************************************************)
(* Values of the variables while the operation they record has not run.    *)
(***************************************************************************)
EmptyStore == [s \in {} |-> <<>>]

PackIdle == [op |-> "none", done |-> FALSE, results |-> <<>>, names |-> <<>>, existing_names |-> {}, max_bucket_size |-> 0, num_buckets |-> 0, buckets |-> <<>>]

RunIdle == [called |-> FALSE, published |-> FALSE, file_path |-> "", lines |-> <<>>, international_names |-> <<>>]

BatchIdle == [pc |-> "idle", state_files |-> <<>>, international_names |-> <<>>, i |-> 0, processed |-> {}]

NoEvent == [surface |-> "none", format |-> "none", state |-> None, bucket |-> None]

LookupIdle == [called |-> FALSE, event |-> NoEvent, get_result |-> "none", response |-> NoResponse, reads |-> 0, raised |-> FALSE]

AnalysisIdle == [done |-> FALSE, lines |-> <<>>, result |-> <<>>, total_name_count |-> 0]

(***************************************************************************)
(* The packing functions on their own: every argument is drawn from a      *)
(* bounded set, then the function is applied.                              *)
(***************************************************************************)
PackNames == {"Al", "Bea", "Yuki", "Alexander"}

PackCounts == {1, 2}

\* a budget holds at least the empty list, whose size is 2
PackBudgets == 2..MaxBudget

PackNumBuckets == 1..MaxBuckets

PackInitNameBuckets ==
    \E results \in SeqsUpTo(PackNames \X PackCounts, MaxNames), max_bucket_size \in PackBudgets, num_buckets \in PackNumBuckets :
        pack = [PackIdle EXCEPT !.op = "create_name_buckets", !.results = results, !.max_bucket_size = max_bucket_size, !.num_buckets = num_buckets]

PackInitInternational ==
    \E names \in SeqsUpTo(PackNames, MaxNames), existing_names \in SUBSET PackNames, max_bucket_size \in PackBudgets, num_buckets \in PackNumBuckets :
        pack = [PackIdle EXCEPT !.op = "create_international_name_buckets", !.names = names, !.existing_names = existing_names, !.max_bucket_size = max_bucket_size, !.num_buckets = num_buckets]

PackInit ==
    /\ PackInitNameBuckets \/ PackInitInternational
    /\ store = EmptyStore
    /\ run = RunIdle
    /\ batch = BatchIdle
    /\ lookup = LookupIdle
    /\ analyzed = AnalysisIdle

CallCreateNameBuckets ==
    /\ pack.op = "create_name_buckets"
    /\ ~pack.done
    /\ pack' = [pack EXCEPT !.done = TRUE, !.buckets = create_name_buckets(pack.results, pack.max_bucket_size, pack.num_buckets)]
    /\ UNCHANGED <<store, run, batch, lookup, analyzed>>

CallCreateInternationalNameBuckets ==
    /\ pack.op = "create_international_name_buckets"
    /\ ~pack.done
    /\ pack' = [pack EXCEPT !.done = TRUE, !.buckets = create_international_name_buckets(pack.names, pack.existing_names, pack.max_bucket_size, pack.num_buckets)]
    /\ UNCHANGED <<store, run, batch, lookup, analyzed>>

PackNext == CallCreateNameBuckets \/ CallCreateInternationalNameBuckets

PackSpec == PackInit /\ [][PackNext]_vars

(***************************************************************************)
(* Measures the claims about packing are stated with.                      *)
(***************************************************************************)
RECURSIVE SerializedSize(_)
SerializedSize(bucket) == IF bucket = <<>> THEN 2 ELSE (PyLen(Head(bucket)) + 4) + SerializedSize(Tail(bucket))

NamesOf(results) == [i \in 1..Len(results) |-> results[i][1]]

BucketList(buckets) == [b \in 1..Len(buckets) |-> buckets[b]]

NameBucketsDone == pack.op = "create_name_buckets" /\ pack.done

InternationalDone == pack.op = "create_international_name_buckets" /\ pack.done

\* C1: every bucket returned by create_name_buckets has
\* sum(len(name)+4) + 2 <= max_bucket_size, oversized names included.
C1_BucketsWithinBudget ==
    NameBucketsDone => \A b \in 1..pack.num_buckets : SerializedSize(pack.buckets[b]) <= pack.max_bucket_size

\* C2: the buckets of create_name_buckets, concatenated in bucket order, are a
\* prefix of the input's names, and when names are missing the first missing
\* name is one that does not fit the last bucket.
C2_ConcatenationIsPrefix ==
    NameBucketsDone =>
        LET packed == Flatten(BucketList(pack.buckets))
            input == NamesOf(pack.results)
        IN  /\ IsPrefix(packed, input)
            /\ Len(packed) < Len(input) =>
                   SerializedSize(pack.buckets[pack.num_buckets]) + PyLen(input[Len(packed) + 1]) + 4 > pack.max_bucket_size

\* a run of create_name_buckets that filled several buckets and dropped a suffix
C2_Witness ==
    /\ NameBucketsDone
    /\ pack.num_buckets >= 2
    /\ \A b \in 1..pack.num_buckets : pack.buckets[b] # <<>>
    /\ Len(Flatten(BucketList(pack.buckets))) < Len(pack.results)

\* the names of a list that are not in a set, in the list's order, as
\* (name, count) pairs
RECURSIVE WithoutExcluded(_, _)
WithoutExcluded(names, exclude) ==
    IF names = <<>> THEN <<>>
    ELSE IF Head(names) \in exclude THEN WithoutExcluded(Tail(names), exclude)
    ELSE <<(<<Head(names), 1>>)>> \o WithoutExcluded(Tail(names), exclude)

\* C3: create_international_name_buckets returns no name of the exclude set,
\* and returns what create_name_buckets returns for the names list with the
\* excluded names removed, under the same budget and bucket count.
C3_InternationalIsFilteredPacking ==
    InternationalDone =>
        /\ \A b \in 1..pack.num_buckets : Range(pack.buckets[b]) \cap pack.existing_names = {}
        /\ pack.buckets = create_name_buckets(WithoutExcluded(pack.names, pack.existing_names), pack.max_bucket_size, pack.num_buckets)

\* a run of create_international_name_buckets in which a listed name was
\* excluded and the names kept went to more than one bucket
C3_Witness ==
    /\ InternationalDone
    /\ Range(pack.names) \cap pack.existing_names # {}
    /\ Cardinality({b \in 1..pack.num_buckets : pack.buckets[b] # <<>>}) >= 2

(***************************************************************************)
(* The loader and the lookup together: process_state_file runs on files of *)
(* bounded length, and lambda_handler reads what was published.            *)
(*                                                                         *)
(* run records the calls of process_state_file: whether one was made and   *)
(* the arguments of the last one that wrote the table.                     *)
(* lookup records the invocation being answered: the                       *)
(* event, what get_item did and the response; it is cleared when the       *)
(* response has been handed back.                                          *)
(***************************************************************************)
MaxLines == 3        \* lines of a state file

LoadPaths == {"data/states/OH.TXT"}

LoadLines == {<<"OH", "F", "1975", Over, "9">>, <<"OH", "F", "1975", LongA, "8">>, <<"OH", "M", "1960", "John", "5">>}

LoadFiles == SeqsUpTo(LoadLines, MaxLines)

LoadInternational == {<<>>, <<LongB, "John", LongA, "Yuki", "Mei">>}

\* the table before the runs: empty, or holding the item of a state
\* published by an earlier run
EarlierPath == "data/states/TX.TXT"

EarlierLines == <<(<<"TX", "F", "1980", "Yuki", "3">>), (<<"TX", "M", "1981", "Mei", "2">>)>>

EarlierStore == process_state_file(EmptyStore, EarlierPath, EarlierLines, <<>>, TRUE, TRUE).table

LoadStates == {"OH", "TX", "ZZ"}

BucketKeys == {"stateBucket1", "stateBucket2", "stateBucket3", "stateBucket4", "otherNamesBucket1", "otherNamesBucket2"}

LoadEvents == {[surface |-> sf[1], format |-> sf[2], state |-> Some(s), bucket |-> Some(b)] : sf \in {<<"direct", "flat">>, <<"gateway", "args">>}, s \in LoadStates, b \in BucketKeys}

GetOutcomes == {"ok", "ClientError", "OtherError"}

Init ==
    /\ pack = PackIdle
    /\ store \in {EmptyStore, EarlierStore}
    /\ run = RunIdle
    /\ batch = BatchIdle
    /\ lookup = LookupIdle
    /\ analyzed = AnalysisIdle

\* the run record after a call of process_state_file
RunAfter(file_path, lines, international_names, raised) ==
    IF raised THEN [run EXCEPT !.called = TRUE]
    ELSE [called |-> TRUE, published |-> TRUE, file_path |-> file_path, lines |-> lines, international_names |-> international_names]

\* the outcomes of the table scan: it is made only when there are international names
ScanOutcomes(international_names) == IF international_names = <<>> THEN {TRUE} ELSE BOOLEAN

\* one call of process_state_file
ProcessStateFile ==
    /\ ~lookup.called
    /\ \E file_path \in LoadPaths, lines \in LoadFiles, international_names \in LoadInternational :
       \E scan_ok \in ScanOutcomes(international_names) :
       \E put_ok \in BOOLEAN :
        LET out == process_state_file(store, file_path, lines, international_names, scan_ok, put_ok)
        IN  /\ store' = out.table
            /\ run' = RunAfter(file_path, lines, international_names, out.raised)
            /\ UNCHANGED <<pack, batch, lookup, analyzed>>

\* the lookup record of an invocation of lambda_handler
LookupOf(event, get_outcome, out) == [called |-> TRUE, event |-> event, get_result |-> IF out.reads = 0 THEN "none" ELSE get_outcome, response |-> out.response, reads |-> out.reads, raised |-> out.raised]

\* one invocation of lambda_function.lambda_handler with an event of a set
LambdaHandlerOn(events) ==
    /\ ~lookup.called
    /\ \E event \in events, get_outcome \in GetOutcomes :
        /\ lookup' = LookupOf(event, get_outcome, lambda_handler(store, event, get_outcome))
        /\ UNCHANGED <<pack, store, run, batch, analyzed>>

\* a lookup of one of the six bucket keys
LambdaHandler == LambdaHandlerOn(LoadEvents)

\* the response is handed back to the caller
LambdaReturn ==
    /\ lookup.called
    /\ lookup' = LookupIdle
    /\ UNCHANGED <<pack, store, run, batch, analyzed>>

Next == ProcessStateFile \/ LambdaHandler \/ LambdaReturn

Spec == Init /\ [][Next]_vars

(***************************************************************************)
(* Claims about the published records and the lookups that read them.      *)
(***************************************************************************)
StateBucketKeys == <<"stateBucket1", "stateBucket2", "stateBucket3", "stateBucket4">>

OtherBucketKeys == <<"otherNamesBucket1", "otherNamesBucket2">>

\* no name occurs twice in the concatenation of these buckets of an item
NoRepeat(names) == \A i, j \in 1..Len(names) : names[i] = names[j] => i = j

OwnNames(item) == UNION {Range(item[StateBucketKeys[n]]) : n \in 1..4}

OtherNames(item) == UNION {Range(item[k]) : k \in Range(OtherBucketKeys) \cap DOMAIN item}

\* C4: in every State Record of the store no name occurs in two of
\* stateBucket1..4 (nor twice in one), and no name of stateBucket1..4 occurs
\* in otherNamesBucket1 or otherNamesBucket2 of the same record.
C4_NoNameDuplicatedInRecord ==
    \A state \in DOMAIN store :
        /\ NoRepeat(store[state]["stateBucket1"] \o store[state]["stateBucket2"] \o store[state]["stateBucket3"] \o store[state]["stateBucket4"])
        /\ OwnNames(store[state]) \cap OtherNames(store[state]) = {}

\* a record whose own names fill two buckets and whose supplementary list
\* named one of them, published with supplementary buckets that are not empty
C4_Witness ==
    /\ run.published
    /\ LET item == store[StateOfPath(run.file_path)]
       IN  /\ Cardinality({n \in 1..4 : item[StateBucketKeys[n]] # <<>>}) >= 2
           /\ Range(run.international_names) \cap OwnNames(item) # {}
           /\ OtherNames(item) # {}

\* what a lookup returns when it returns this list of names: the list itself
\* on a direct invocation, its JSON text in a 200 envelope otherwise
Returns(response, names) ==
    IF response.shape = "raw" THEN response.data = NamesData(names)
    ELSE response.shape = "envelope" /\ response.statusCode = 200 /\ response.body = JsonDumps(NamesData(names))

\* the buckets packed by the last run that published, from its arguments
PackedOwn == create_name_buckets(analyze_names(run.lines).result, MaxBucketSize, NumStateBuckets)

PackedOther == create_international_name_buckets(run.international_names, UNION {Range(PackedOwn[b]) : b \in 1..NumStateBuckets}, MaxBucketSize, NumOtherBuckets)

\* a lookup that passed validation and whose get_item succeeded
LookupRead == lookup.called /\ lookup.get_result = "ok"

LookupOfPublished == LookupRead /\ run.published /\ lookup.event.state = Some(StateOfPath(run.file_path))

\* C5: a lookup of stateBucketN (otherNamesBucketM) of a published state,
\* whose read of the store succeeds, returns the N-th (M-th) bucket the
\* last run packed, same names in the same order.
C5_LookupReturnsPublishedBucket ==
    LookupOfPublished =>
        /\ \A n \in 1..4 : lookup.event.bucket = Some(StateBucketKeys[n]) => Returns(lookup.response, PackedOwn[n])
        /\ \A m \in 1..2 : (lookup.event.bucket = Some(OtherBucketKeys[m]) /\ run.international_names # <<>>) => Returns(lookup.response, PackedOther[m])

\* lookups that returned a fourth bucket and a second supplementary bucket
\* that are not empty, one of them through the gateway envelope
C5_Witness ==
    /\ LookupOfPublished
    /\ lookup.event.surface = "gateway"
    /\ lookup.event.bucket = Some("otherNamesBucket2")
    /\ PackedOther[2] # <<>>
    /\ PackedOwn[4] # <<>>
    /\ PackedOwn[1] = <<>>

\* C6: a validated lookup whose read succeeds returns the empty sequence, not
\* an error, when the store has no record for the state or the record lacks
\* the requested key.
C6_EmptySequenceWhenAbsent ==
    (LookupRead /\ (lookup.event.state[1] \notin DOMAIN store \/ lookup.event.bucket[1] \notin DOMAIN store[lookup.event.state[1]]))
        => Returns(lookup.response, <<>>)

\* a lookup of otherNamesBucket1 for a state published without supplementary
\* buckets
C6_Witness ==
    /\ LookupRead
    /\ lookup.event.state[1] \in DOMAIN store
    /\ lookup.event.bucket = Some("otherNamesBucket1")
    /\ "otherNamesBucket1" \notin DOMAIN store[lookup.event.state[1]]
    /\ Returns(lookup.response, <<>>)

\* a lookup for a state that was never published
C6_WitnessNoRecord ==
    /\ LookupRead
    /\ store # EmptyStore
    /\ lookup.event.state[1] \notin DOMAIN store

\* the record of a state is the record computed from the arguments of the
\* last run that published it, on an empty table
RecordIsLatestInputAlone ==
    run.published =>
        store[StateOfPath(run.file_path)] = process_state_file(EmptyStore, run.file_path, run.lines, run.international_names, TRUE, TRUE).table[StateOfPath(run.file_path)]

\* a run that publishes the arguments of the last publish again leaves the
\* table as it was
RepublishIsIdempotent ==
    [][(run.published /\ run'.published /\ run'.file_path = run.file_path /\ run'.lines = run.lines /\ run'.international_names = run.international_names /\ lookup' = lookup) => store' = store]_vars

\* C10: after any sequence of publishes the record of a state is the one
\* computed from the latest publish's input alone (nothing of an earlier
\* record or of another state's record is in it), and publishing the same
\* input again leaves the record as it was.
C10_OverwriteAndIdempotent == []RecordIsLatestInputAlone /\ RepublishIsIdempotent

\* a record published without supplementary buckets while another state's
\* record is in the table
C10_Witness ==
    /\ run.published
    /\ run.international_names = <<>>
    /\ run.lines # <<>>
    /\ "TX" \in DOMAIN store
    /\ "otherNamesBucket1" \notin DOMAIN store["OH"]

(***************************************************************************)
(* The lookup on its own: lambda_handler on events of every format, with   *)
(* bucket identifiers made of a prefix and a bounded suffix, over a table  *)
(* that two runs of the loader published.                                  *)
(***************************************************************************)
MaxSuffix == 2       \* characters after the prefix of a bucket identifier

SuffixChars == {"0", "1", "2", "3", "4", "5", " ", "+", "-", "_", "x"}

RECURSIVE Concat(_)
Concat(chars) == IF chars = <<>> THEN "" ELSE Head(chars) \o Concat(Tail(chars))

Suffixes == {Concat(chars) : chars \in SeqsUpTo(SuffixChars, MaxSuffix)}

Prefixes == {StateBucketPrefix, OtherNamesBucketPrefix, "nameBucket", "statebucket"}

LookupBuckets == {None, Some("")} \cup {Some(prefix \o suffix) : prefix \in Prefixes, suffix \in Suffixes}

LookupStateArgs == {None, Some(""), Some("OH"), Some("ZZ")}

ParsedFormats == {<<"direct", "flat">>, <<"gateway", "args">>, <<"gateway", "tool_calls">>}

UnparsedFormats == {<<"direct", "not_a_dict">>, <<"gateway", "tool_calls_without_arguments">>, <<"gateway", "malformed_json">>, <<"gateway", "unrecognised">>}

LookupEvents ==
    {[surface |-> sf[1], format |-> sf[2], state |-> state, bucket |-> bucket] : sf \in ParsedFormats, state \in LookupStateArgs, bucket \in LookupBuckets}
    \cup {[surface |-> sf[1], format |-> sf[2], state |-> None, bucket |-> None] : sf \in UnparsedFormats}

PublishedLines == <<(<<"OH", "F", "1975", Over, "9">>), (<<"OH", "F", "1975", LongA, "8">>), (<<"OH", "M", "1960", "John", "5">>)>>

PublishedStore == process_state_file(EarlierStore, "data/states/OH.TXT", PublishedLines, <<LongB, "John", LongA, "Yuki", "Mei">>, TRUE, TRUE).table

LookupInit ==
    /\ pack = PackIdle
    /\ store = PublishedStore
    /\ run = RunIdle
    /\ batch = BatchIdle
    /\ lookup = LookupIdle
    /\ analyzed = AnalysisIdle

\* a lookup with any event
LambdaHandlerAnyEvent == LambdaHandlerOn(LookupEvents)

LookupNext == LambdaHandlerAnyEvent \/ LambdaReturn

LookupSpec == LookupInit /\ [][LookupNext]_vars

\* what a lookup returns when it returns an error object with this message
ReturnsError(response, message) ==
    IF response.shape = "raw" THEN response.data = ErrorData(message)
    ELSE response.shape = "envelope" /\ response.body = JsonDumps(ErrorData(message))

\* a lookup whose event carried a state and a bucket, both non-empty
LookupWithArgs == lookup.called /\ Truthy(lookup.event.state) /\ Truthy(lookup.event.bucket)

\* the suffix is the decimal text of an integer of lo..hi, as int() reads it
SuffixInRange(suffix, lo, hi) == PyInt(suffix).ok /\ lo <= PyInt(suffix).value /\ PyInt(suffix).value <= hi

BadOrdinalRejected(prefix, hi, range_error, format_error) ==
    (LookupWithArgs /\ StartsWith(lookup.event.bucket[1], prefix) /\ ~SuffixInRange(AfterPrefix(lookup.event.bucket[1], prefix), 1, hi))
        => /\ lookup.reads = 0
           /\ ~lookup.raised
           /\ ReturnsError(lookup.response, IF PyInt(AfterPrefix(lookup.event.bucket[1], prefix)).ok THEN range_error ELSE format_error)

\* C7: with a non-empty state, "stateBucket"+suffix with a suffix that is no
\* number or a number outside 1..4 gets the state-bucket range or format
\* error, "otherNamesBucket"+suffix with a suffix that is no number or a
\* number outside 1..2 gets the other-names range or format error; an error
\* object is returned and the store is not read.
C7_BadOrdinalRejectedBeforeRead ==
    /\ BadOrdinalRejected(StateBucketPrefix, 4, "For state buckets, number must be between 1 and 4", "Invalid bucket format. Expected 'stateBucket1' through 'stateBucket4'")
    /\ BadOrdinalRejected(OtherNamesBucketPrefix, 2, "For other names buckets, number must be between 1 and 2", "Invalid bucket format. Expected 'otherNamesBucket1' or 'otherNamesBucket2'")

\* "otherNamesBucket3" for state OH, rejected with the range error
C7_Witness ==
    /\ lookup.called
    /\ lookup.event.state = Some("OH")
    /\ lookup.event.bucket = Some("otherNamesBucket3")
    /\ lookup.reads = 0
    /\ ReturnsError(lookup.response, "For other names buckets, number must be between 1 and 2")

\* "stateBucket5" and a suffix that is no number, rejected
C7_WitnessStateBucket ==
    /\ lookup.called
    /\ lookup.event.state = Some("OH")
    /\ lookup.event.bucket \in {Some("stateBucket5"), Some("stateBucketx")}
    /\ lookup.reads = 0
    /\ lookup.response.shape = "envelope"

\* C8: the bucket identifiers that pass validation and are used as the
\* attribute key of the read are exactly the six literals stateBucket1..4
\* and otherNamesBucket1..2.
C8_OnlySixLiteralsAccepted ==
    /\ (lookup.called /\ lookup.reads > 0) => lookup.event.bucket[1] \in BucketKeys
    /\ (LookupWithArgs /\ lookup.event.bucket[1] \in BucketKeys) => lookup.reads > 0

\* a lookup that handed a response back
LookupResponded == lookup.called /\ ~lookup.raised

\* C11: every response to an event with a 'body' key is an envelope with a
\* statusCode, headers and the JSON text of the result in body, whatever the
\* outcome; every response to an event without a 'body' key is the raw list
\* or the raw error object.
C11_SurfaceDecidesShape ==
    LookupResponded =>
        /\ lookup.event.surface = "gateway" =>
              (lookup.response.shape = "envelope" /\ lookup.response.statusCode # 0 /\ lookup.response.headers /\ lookup.response.body # "")
        /\ lookup.event.surface = "direct" =>
              (lookup.response.shape = "raw" /\ lookup.response.data.tag \in {"names", "error"})

\* a lookup whose event was parsed into a state and a bucket (line 58 reached)
LookupParsed == lookup.called /\ <<lookup.event.surface, lookup.event.format>> \in ParsedFormats

KnownPrefix(bucket) == StartsWith(bucket, StateBucketPrefix) \/ StartsWith(bucket, OtherNamesBucketPrefix)

\* the number after the prefix, as int() reads it, is one the family has
GoodOrdinal(bucket) ==
    \/ StartsWith(bucket, StateBucketPrefix) /\ SuffixInRange(AfterPrefix(bucket, StateBucketPrefix), 1, 4)
    \/ StartsWith(bucket, OtherNamesBucketPrefix) /\ SuffixInRange(AfterPrefix(bucket, OtherNamesBucketPrefix), 1, 2)

OrdinalErrors(bucket) ==
    IF StartsWith(bucket, StateBucketPrefix)
    THEN {"For state buckets, number must be between 1 and 4", "Invalid bucket format. Expected 'stateBucket1' through 'stateBucket4'"}
    ELSE {"For other names buckets, number must be between 1 and 2", "Invalid bucket format. Expected 'otherNamesBucket1' or 'otherNamesBucket2'"}

\* C16: of a parsed event, (1) a state or a bucket that is missing or empty
\* gets the missing-parameters error whatever the other field is, (2) else
\* a bucket with neither prefix gets the prefix error, (3) else a bad
\* number after the prefix gets a range or format error of its family; in
\* each of the three cases the store is not read, and the store is read
\* only when all three checks pass.
C16_ChecksInOrderBeforeRead ==
    LookupParsed =>
        LET state == lookup.event.state
            bucket == lookup.event.bucket
        IN  /\ (~Truthy(state) \/ ~Truthy(bucket)) =>
                  (lookup.reads = 0 /\ ReturnsError(lookup.response, "Missing required parameters: state and bucket"))
            /\ (Truthy(state) /\ Truthy(bucket) /\ ~KnownPrefix(bucket[1])) =>
                  (lookup.reads = 0 /\ ReturnsError(lookup.response, "bucket must start with 'stateBucket' or 'otherNamesBucket'"))
            /\ (Truthy(state) /\ Truthy(bucket) /\ KnownPrefix(bucket[1]) /\ ~GoodOrdinal(bucket[1])) =>
                  (lookup.reads = 0 /\ \E message \in OrdinalErrors(bucket[1]) : ReturnsError(lookup.response, message))
            /\ lookup.reads > 0 => (Truthy(state) /\ Truthy(bucket) /\ KnownPrefix(bucket[1]) /\ GoodOrdinal(bucket[1]))

\* a missing or empty state with a bucket that has a bad number or no known
\* prefix, answered with the missing-parameters error
C16_Witness ==
    /\ LookupParsed
    /\ ~Truthy(lookup.event.state)
    /\ lookup.event.bucket \in {Some("stateBucket5"), Some("nameBucket1"), Some("otherNamesBucketx")}
    /\ lookup.reads = 0
    /\ ReturnsError(lookup.response, "Missing required parameters: state and bucket")

\* a bucket with no known prefix whose suffix is a bad number, answered with
\* the prefix error
C16_WitnessPrefix ==
    /\ LookupParsed
    /\ lookup.event.state = Some("OH")
    /\ lookup.event.bucket = Some("nameBucket5")
    /\ ReturnsError(lookup.response, "bucket must start with 'stateBucket' or 'otherNamesBucket'")

\* a lookup whose get_item raised
LookupReadFailed == lookup.called /\ lookup.get_result \in {"ClientError", "OtherError"}

\* the response is an error object with a message, raw or as JSON text
ReturnsSomeError(response) ==
    IF response.shape = "raw" THEN response.data.tag = "error" /\ response.data.error # ""
    ELSE response.shape = "envelope" /\ StartsWith(response.body, "{\"error\": \"") /\ Len(response.body) > Len("{\"error\": \"\"}")

\* C12: a lookup whose read of the store fails returns an error object with
\* the description of the failure, after exactly one get_item call, and no
\* exception leaves the handler.
C12_StoreFailureIsStructuredError ==
    LookupReadFailed =>
        /\ ~lookup.raised
        /\ lookup.reads = 1
        /\ ReturnsSomeError(lookup.response)

(***************************************************************************)
(* main(): the batch over the state files of the data directory.           *)
(*                                                                         *)
(* batch is main's position: pc is "idle" before the call, "running" in    *)
(* the for loop, "done" after the last print and "crashed" when an         *)
(* exception left main; i is the 1-based index of enumerate; processed is  *)
(* the set of files process_state_file was called with.                    *)
(***************************************************************************)
MaxFiles == 2        \* state files in the data directory

BatchPaths == {"data/states/OH.TXT", "data/states/TX.TXT", "data/states/CA.TXT"}

\* os.listdir gives the files in any order, each once
BatchFileLists == {files \in SeqsUpTo(BatchPaths, MaxFiles) : \A i, j \in 1..Len(files) : files[i] = files[j] => i = j}

BatchContents == {<<>>, <<(<<"XX", "M", "1960", "John", "5">>)>>, <<(<<"XX", "F", "1975", LongA, "8">>), (<<"XX", "F", "1990", "Yuki", "2">>)>>}

\* read_international_names gives [] when the file cannot be read
BatchInternational == {<<>>, <<"Yuki", "John", "Mei">>}

BatchInit ==
    /\ pack = PackIdle
    /\ store = EmptyStore
    /\ run = RunIdle
    /\ batch = BatchIdle
    /\ lookup = LookupIdle
    /\ analyzed = AnalysisIdle

\* lines 338-350: the names and the list of files are read
MainStart ==
    /\ batch.pc = "idle"
    /\ \E state_files \in BatchFileLists, international_names \in BatchInternational :
        batch' = [pc |-> "running", state_files |-> state_files, international_names |-> international_names, i |-> 1, processed |-> {}]
    /\ UNCHANGED <<pack, store, run, lookup, analyzed>>

\* lines 353-359: one iteration of the for loop; an exception raised in
\* process_state_file is caught nowhere and leaves main
MainProcessFile ==
    /\ batch.pc = "running"
    /\ batch.i <= Len(batch.state_files)
    /\ \E lines \in BatchContents, scan_ok \in ScanOutcomes(batch.international_names), put_ok \in BOOLEAN :
        LET file_path == batch.state_files[batch.i]
            out == process_state_file(store, file_path, lines, batch.international_names, scan_ok, put_ok)
        IN  /\ store' = out.table
            /\ run' = RunAfter(file_path, lines, batch.international_names, out.raised)
            /\ batch' = [batch EXCEPT !.pc = IF out.raised THEN "crashed" ELSE "running",
                                      !.i = IF out.raised THEN @ ELSE @ + 1,
                                      !.processed = @ \cup {file_path}]
    /\ UNCHANGED <<pack, lookup, analyzed>>

\* line 361: the loop is over
MainFinish ==
    /\ batch.pc = "running"
    /\ batch.i > Len(batch.state_files)
    /\ batch' = [batch EXCEPT !.pc = "done"]
    /\ UNCHANGED <<pack, store, run, lookup, analyzed>>

BatchNext == MainStart \/ MainProcessFile \/ MainFinish

BatchSpec == BatchInit /\ [][BatchNext]_vars

\* C9: a failure while processing or publishing one state does not stop
\* the batch: when main has ended, process_state_file has been called for
\* every state file of the list.
C9_BatchSurvivesFailure ==
    batch.pc \in {"done", "crashed"} => Range(batch.state_files) \subseteq batch.processed

(***************************************************************************)
(* analyze_names on its own: the file is any sequence of at most MaxLines  *)
(* lines, among them records of the first and the last year of the window, *)
(* of the years next to it, with a year or a count that is no integer,     *)
(* with four and with six fields, and a blank line.                        *)
(***************************************************************************)
AnalyzeLines ==
    {<<"OH", "F", "1975", "Al", "2">>,
     <<"OH", "M", "1960", "Bea", "2">>,
     <<"OH", "F", "1955", "Al", "1">>,
     <<"OH", "F", "2010", "Cy", "3">>,
     <<"OH", "F", "1954", "Al", "4">>,
     <<"OH", "F", "2011", "Bea", "4">>,
     <<"OH", "F", "19x5", "Al", "4">>,
     <<"OH", "F", "1975", "Bea", "x">>,
     <<"OH", "F", "1975", "Al">>,
     <<"OH", "F", "1975", "Al", "2", "7">>,
     <<"OH", "F", " 1975", "Dee", "+2">>,
     <<"">>}

AnalyzeFiles == SeqsUpTo(AnalyzeLines, MaxLines)

AnalyzeInit ==
    /\ pack = PackIdle
    /\ store = EmptyStore
    /\ run = RunIdle
    /\ batch = BatchIdle
    /\ lookup = LookupIdle
    /\ analyzed \in {[done |-> FALSE, lines |-> lines, result |-> <<>>, total_name_count |-> 0] : lines \in AnalyzeFiles}

\* one call of analyze_names on the file
CallAnalyzeNames ==
    /\ ~analyzed.done
    /\ LET out == analyze_names(analyzed.lines)
       IN  analyzed' = [done |-> TRUE, lines |-> analyzed.lines, result |-> out.result, total_name_count |-> out.total_name_count]
    /\ UNCHANGED <<pack, store, run, batch, lookup>>

AnalyzeNext == CallAnalyzeNames

AnalyzeSpec == AnalyzeInit /\ [][AnalyzeNext]_vars

\* the sum of the counts of a list of (name, count) pairs
RECURSIVE SumCounts(_)
SumCounts(items) == IF items = <<>> THEN 0 ELSE Head(items)[2] + SumCounts(Tail(items))

\* C13: the totals of the names in the list analyze_names returns add up to
\* the grand total it returns with the list.
C13_TotalsSumToGrandTotal ==
    analyzed.done => SumCounts(analyzed.result) = analyzed.total_name_count

\* a record that is well formed (five fields, year and count integers) and
\* whose year is in the window
Admitted(parts) ==
    /\ Len(parts) = 5
    /\ PyInt(parts[3]).ok
    /\ PyInt(parts[5]).ok
    /\ YearLo <= PyInt(parts[3]).value
    /\ PyInt(parts[3]).value <= YearHi

AdmittedIndexes(lines) == {i \in 1..Len(lines) : Admitted(lines[i])}

AdmittedNames(lines) == {lines[i][4] : i \in AdmittedIndexes(lines)}

\* two names in the list and a record of the file that is not admitted
C13_Witness ==
    /\ analyzed.done
    /\ Len(analyzed.result) >= 2
    /\ analyzed.total_name_count >= 4
    /\ AdmittedIndexes(analyzed.lines) # 1..Len(analyzed.lines)

\* the sum of the counts of the admitted records of a name ("" for any name)
RECURSIVE SumFor(_, _)
SumFor(lines, name) ==
    IF lines = <<>> THEN 0
    ELSE (IF Admitted(Head(lines)) /\ (name = "" \/ Head(lines)[4] = name) THEN PyInt(Head(lines)[5]).value ELSE 0) + SumFor(Tail(lines), name)

ResultNames(result) == {result[k][1] : k \in 1..Len(result)}

\* C14: the names of the list are the names of the admitted records, each
\* with the sum of the counts of its admitted records; the grand total is
\* the sum over the admitted records; and the file without its records that
\* are malformed or outside 1955..2010 gives the same list and total.
C14_ExactlyAdmittedRecordsCount ==
    analyzed.done =>
        /\ ResultNames(analyzed.result) = AdmittedNames(analyzed.lines)
        /\ \A k \in 1..Len(analyzed.result) : analyzed.result[k][2] = SumFor(analyzed.lines, analyzed.result[k][1])
        /\ analyzed.total_name_count = SumFor(analyzed.lines, "")
        /\ analyze_names(SelectSeq(analyzed.lines, Admitted)) = [result |-> analyzed.result, total_name_count |-> analyzed.total_name_count]

\* a file with the record of 2010, admitted, and the record of 2011 or one
\* with a count that is no integer, not admitted
C14_Witness ==
    /\ analyzed.done
    /\ \E i \in 1..Len(analyzed.lines) : analyzed.lines[i] = <<"OH", "F", "2010", "Cy", "3">>
    /\ \E i \in 1..Len(analyzed.lines) : analyzed.lines[i] \in {<<"OH", "F", "2011", "Bea", "4">>, <<"OH", "F", "1975", "Bea", "x">>}
    /\ "Cy" \in ResultNames(analyzed.result)

\* the line of the first admitted record of a name
FirstSeen(lines, name) == CHOOSE i \in AdmittedIndexes(lines) : lines[i][4] = name /\ \A j \in AdmittedIndexes(lines) : lines[j][4] = name => i <= j

\* C15: the list has each admitted name once, totals never increase along
\* the list, and of two names with the same total the one whose first
\* admitted record comes first in the file is first.
C15_RankedStableByFirstSeen ==
    analyzed.done =>
        /\ ResultNames(analyzed.result) = AdmittedNames(analyzed.lines)
        /\ \A j, k \in 1..Len(analyzed.result) : j # k => analyzed.result[j][1] # analyzed.result[k][1]
        /\ \A k \in 1..(Len(analyzed.result) - 1) :
              \/ analyzed.result[k][2] > analyzed.result[k + 1][2]
              \/ /\ analyzed.result[k][2] = analyzed.result[k + 1][2]
                 /\ FirstSeen(analyzed.lines, analyzed.result[k][1]) < FirstSeen(analyzed.lines, analyzed.result[k + 1][1])

\* two names with the same total, and a third name with a larger total whose
\* records come after theirs
C15_Witness ==
    /\ analyzed.done
    /\ Len(analyzed.result) = 3
    /\ analyzed.result[2][2] = analyzed.result[3][2]
    /\ analyzed.result[1][2] > analyzed.result[2][2]
    /\ FirstSeen(analyzed.lines, analyzed.result[1][1]) > FirstSeen(analyzed.lines, analyzed.result[3][1])

(***************************************************************************)
(* get_state_names_lambda.lambda_handler(event, context): the handler that *)
(* takes a state and an integer bucketNumber.                              *)
(*                                                                         *)
(* Its event is [surface, format, state, bucket, bucketNumber]: state is   *)
(* <<>> when the key is absent, bucketNumber is <<>> when the key is       *)
(* absent and else <<[is_int, value]>>, is_int being isinstance(.., int).  *)
(* It always answers with the raw list or the raw error object.            *)
(***************************************************************************)
MaxBucketNumber == 6     \* largest bucketNumber of an event

\* line 24: the error of the bucket number, "" when it is accepted
BucketNumberArgError(bucket_number) ==
    IF ~bucket_number.is_int \/ bucket_number.value < 1 \/ bucket_number.value > 5
    THEN "bucketNumber must be an integer between 1 and 5"
    ELSE ""

\* line 49: f'nameBucket{bucket_number}'
NameBucketKey(bucket_number) == "nameBucket" \o ToString(bucket_number)

\* lines 45-54, after a get_item that succeeded
GetNameBucketData(table, state, bucket_number) ==
    IF state \notin DOMAIN table THEN NamesData(<<>>)
    ELSE IF NameBucketKey(bucket_number) \in DOMAIN table[state] THEN NamesData(table[state][NameBucketKey(bucket_number)])
    ELSE NamesData(<<>>)

RawResponse(data) == [shape |-> "raw", statusCode |-> 0, headers |-> FALSE, data |-> data, body |-> ""]

get_state_names_lambda(table, event, get_outcome) ==
    IF event.state = None
    THEN [response |-> RawResponse(ErrorData("Missing required parameter: 'state'")), reads |-> 0, raised |-> FALSE]
    ELSE IF event.bucketNumber = None
    THEN [response |-> RawResponse(ErrorData("Missing required parameter: 'bucketNumber'")), reads |-> 0, raised |-> FALSE]
    ELSE IF BucketNumberArgError(event.bucketNumber[1]) # ""
    THEN [response |-> RawResponse(ErrorData(BucketNumberArgError(event.bucketNumber[1]))), reads |-> 0, raised |-> FALSE]
    ELSE IF get_outcome = "ok"
    THEN [response |-> RawResponse(GetNameBucketData(table, event.state[1], event.bucketNumber[1].value)), reads |-> 1, raised |-> FALSE]
    ELSE IF get_outcome = "ClientError"
    THEN [response |-> RawResponse(ErrorData("An error occurred (ClientError) when calling the GetItem operation")), reads |-> 1, raised |-> FALSE]
    ELSE [response |-> NoResponse, reads |-> 1, raised |-> TRUE]

BucketNumberArgs == {None, Some([is_int |-> FALSE, value |-> 1])} \cup {Some([is_int |-> TRUE, value |-> n]) : n \in 0..MaxBucketNumber}

StateNamesEvents == {[surface |-> "direct", format |-> "bucketNumber", state |-> state, bucket |-> None, bucketNumber |-> bucket_number] : state \in {None, Some("OH"), Some("TX"), Some("ZZ")}, bucket_number \in BucketNumberArgs}

\* the table before any run, after the run for TX, and after the runs for TX
\* and OH
StateNamesInit ==
    /\ pack = PackIdle
    /\ store \in {EmptyStore, EarlierStore, PublishedStore}
    /\ run = RunIdle
    /\ batch = BatchIdle
    /\ lookup = LookupIdle
    /\ analyzed = AnalysisIdle

\* one invocation of get_state_names_lambda.lambda_handler
GetStateNamesLambda ==
    /\ ~lookup.called
    /\ \E event \in StateNamesEvents, get_outcome \in GetOutcomes :
        /\ lookup' = LookupOf(event, get_outcome, get_state_names_lambda(store, event, get_outcome))
        /\ UNCHANGED <<pack, store, run, batch, analyzed>>

StateNamesNext == GetStateNamesLambda \/ LambdaReturn

StateNamesSpec == StateNamesInit /\ [][StateNamesNext]_vars

\* an invocation with a state and an integer bucketNumber
StateNamesLookup == lookup.called /\ lookup.event.state # None /\ lookup.event.bucketNumber # None /\ lookup.event.bucketNumber[1].is_int

\* C17: for a state the loader published and a bucketNumber N the loader
\* publishes a bucket for, a lookup whose read succeeds returns the names of
\* stateBucketN of the record; and the bucket numbers that pass validation
\* are those of the buckets the loader publishes, 1..4.
C17_ReadsWhatLoaderWrites ==
    StateNamesLookup =>
        LET state == lookup.event.state[1]
            n == lookup.event.bucketNumber[1].value
        IN  /\ (lookup.get_result = "ok" /\ state \in DOMAIN store /\ n \in 1..NumStateBuckets) =>
                  lookup.response.data = NamesData(store[state][StateBucketKeys[n]])
            /\ lookup.reads > 0 <=> n \in 1..NumStateBuckets

====
